---- MODULE Spec2Model ----
(***************************************************************************)
(* Model of countdown_rs: the permutation / sub-multiset generators, the   *)
(* number systems, the expression tree builder and the search driver.      *)
(* Rust vectors are sequences; a Rust index i is position i + 1.           *)
(* Option<T> is a sequence of length 0 (None) or 1 (Some).                 *)
(***************************************************************************)
EXTENDS Integers, Sequences, FiniteSets, TLC

\* ------------------------------------------------------------------------
\* Bounds of the model
\* ------------------------------------------------------------------------
\* number of distinct keys offered to the permutation / count generators
MaxKeys == 3
\* largest multiplicity of one key
MaxMult == 2
\* largest total number of elements handed to PermutationGenerator
MaxTotal == 4
\* longest input list of SubsetPermutationGenerator::new
MaxListLen == 3
\* largest value in an input list of SubsetPermutationGenerator::new
MaxListVal == 3
\* largest modulus of a ModularNumberSystem whose operations are applied
MaxModulus == 7
\* largest operand handed to a number system operation
MaxOperand == 6
\* longest list of source numbers handed to find_expressions
MaxSourceLen == 3
\* UniquePermutationGenerator: most elements of the input
MaxUniqueLen == 4
\* UniquePermutationGenerator: most calls of next() that return None
MaxNoneReturns == 2
\* Operators::from_iter: most operators in the iterator it collects
MaxOperatorListLen == 4

\* the most items a caller of the sender hands to send
MaxSends == 3

\* the most calls of each set_done a caller makes
MaxSetDoneCalls == 2

\* ------------------------------------------------------------------------
\* Option and vector helpers
\* ------------------------------------------------------------------------
None == <<>>

Some(x) == <<x>>

IsSome(o) == Len(o) = 1

Unwrap(o) == o[1]

\* v[i] for a Rust index i
At(v, i) == v[i + 1]

\* v with v[i] replaced
SetAt(v, i, x) == [v EXCEPT ![i + 1] = x]

SwapReverseMutant(v, i, j) ==
    LET lo == (IF i < j THEN i ELSE j) + 1
        hi == (IF i < j THEN j ELSE i) + 1
    IN  [k \in 1..Len(v) |-> IF lo <= k /\ k <= hi THEN v[lo + hi - k] ELSE v[k]]

\* Vec::swap(i, j)
Swap(v, i, j) == [v EXCEPT ![i + 1] = v[j + 1], ![j + 1] = v[i + 1]]

\* 0..n as a vector (the Rust range 0..n collected)
RangeVec(n) == [k \in 1..n |-> k - 1]

RECURSIVE SumSeq(_)
SumSeq(s) == IF s = <<>> THEN 0 ELSE s[1] + SumSeq(Tail(s))

RECURSIVE Factorial(_)
Factorial(n) == IF n <= 0 THEN 1 ELSE n * Factorial(n - 1)

RECURSIVE ProdSeq(_)
ProdSeq(s) == IF s = <<>> THEN 1 ELSE s[1] * ProdSeq(Tail(s))

Min(S) == CHOOSE x \in S : \A y \in S : x <= y

Max(S) == CHOOSE x \in S : \A y \in S : x >= y

\* the elements of a finite set of integers in ascending order (BTreeMap key order)
RECURSIVE SortedKeys(_)
SortedKeys(S) == IF S = {} THEN <<>> ELSE <<Min(S)>> \o SortedKeys(S \ {Min(S)})

Range(s) == {s[k] : k \in DOMAIN s}

NoDuplicates(s) == \A i, j \in DOMAIN s : i # j => s[i] # s[j]

\* ------------------------------------------------------------------------
\* UniquePermutationGenerator (Heap's algorithm, iterative)
\* ------------------------------------------------------------------------
UniquePermutationGenerator_new(a) == [a |-> a, c |-> [k \in DOMAIN a |-> 0], i |-> 0]

\* the while loop of next(): result is [gen, out]
RECURSIVE UniqueLoop(_)
UniqueLoop(u) ==
    IF u.i < Len(u.a)
    THEN IF At(u.c, u.i) < u.i
         THEN LET a2 == IF u.i % 2 = 0 THEN Swap(u.a, 0, u.i)
                        ELSE Swap(u.a, At(u.c, u.i), u.i)
                  c2 == SetAt(u.c, u.i, At(u.c, u.i) + 1)
              IN  [gen |-> [a |-> a2, c |-> c2, i |-> 1], out |-> Some(a2)]
         ELSE UniqueLoop([u EXCEPT !.c = SetAt(u.c, u.i, 0), !.i = u.i + 1])
    ELSE [gen |-> u, out |-> None]

UniqueNextNoFirstMutant(u) == UniqueLoop(u)

\* one call of next(): result is [gen, out]
UniqueNext(u) ==
    IF u.i = 0
    THEN [gen |-> [u EXCEPT !.i = 1], out |-> Some(u.a)]
    ELSE UniqueLoop(u)

\* ------------------------------------------------------------------------
\* PermutationGenerator (multiset permutations)
\* ------------------------------------------------------------------------
\* the pairs (t, count) expanded: one entry [t, group] per copy, in order
RECURSIVE ExpandPairs(_, _)
ExpandPairs(pairs, i) ==
    IF pairs = <<>> THEN <<>>
    ELSE LET t == pairs[1][1]
             count == pairs[1][2]
             copies == [k \in 1..count |->
                          [t |-> t,
                           group |-> IF k = 1 THEN None ELSE Some(i + k - 2)]]
         IN  copies \o ExpandPairs(Tail(pairs), i + count)

PermutationGenerator_from_iter(pairs) ==
    LET e == ExpandPairs(pairs, 0)
    IN  [groups |-> [k \in DOMAIN e |-> e[k].group],
         elements |-> [k \in DOMAIN e |-> e[k].t],
         unique |-> UniquePermutationGenerator_new(RangeVec(Len(e)))]

\* value_index: position (Rust index) of each id in the permutation a
ValueIndex(a) == [v \in 1..Len(a) |-> (CHOOSE p \in DOMAIN a : a[p] = v - 1) - 1]

\* the permutation is skipped when a copy stands before its predecessor
SkipNoneMutant(groups, a) == FALSE

Skipped(groups, a) ==
    LET value_index == ValueIndex(a)
    IN  \E current_value \in 0..(Len(a) - 1) :
           /\ IsSome(At(groups, current_value))
           /\ At(value_index, Unwrap(At(groups, current_value)))
                 > At(value_index, current_value)

RECURSIVE PermutationGenerator_next(_)
PermutationGenerator_next(pg) ==
    LET r == UniqueNext(pg.unique)
        pg2 == [pg EXCEPT !.unique = r.gen]
    IN  IF ~IsSome(r.out) THEN [gen |-> pg2, out |-> None]
        ELSE LET a == Unwrap(r.out)
             IN  IF Skipped(pg.groups, a)
                 THEN PermutationGenerator_next(pg2)
                 ELSE [gen |-> pg2,
                       out |-> Some([k \in DOMAIN a |-> At(pg.elements, a[k])])]

\* ------------------------------------------------------------------------
\* KeyCount and KVPairIterator (sub-multiset count vectors)
\* ------------------------------------------------------------------------
KeyCountNoIncrementMutant(list) == [t \in Range(list) |-> 1]

\* KeyCount::from_iter: value -> number of occurrences
KeyCount_from_iter(list) ==
    [t \in Range(list) |-> Cardinality({k \in DOMAIN list : list[k] = t})]

\* KVPairIterator::from(KeyCount)
KVPairIterator_from(keycount) ==
    [t \in DOMAIN keycount |-> [count |-> 0, max |-> keycount[t]]]

\* the vector of (t, size) in key order
KVItems(keys) ==
    LET ks == SortedKeys(DOMAIN keys)
    IN  [k \in DOMAIN ks |-> <<ks[k], keys[ks[k]].count>>]

KVNextFirstMutant(keys) ==
    LET non_full == {t \in DOMAIN keys : keys[t].count < keys[t].max}
    IN  IF non_full = {} THEN [gen |-> keys, out |-> None]
        ELSE LET last_non_full == Min(non_full)
                 keys2 == [t \in DOMAIN keys |->
                             IF t > last_non_full THEN [keys[t] EXCEPT !.count = 0]
                             ELSE IF t = last_non_full
                                  THEN [keys[t] EXCEPT !.count = keys[t].count + 1]
                                  ELSE keys[t]]
             IN  [gen |-> keys2, out |-> Some(KVItems(keys2))]

KVPairIterator_next(keys) ==
    LET non_full == {t \in DOMAIN keys : keys[t].count < keys[t].max}
    IN  IF non_full = {} THEN [gen |-> keys, out |-> None]
        ELSE LET last_non_full == Max(non_full)
                 keys2 == [t \in DOMAIN keys |->
                             IF t > last_non_full THEN [keys[t] EXCEPT !.count = 0]
                             ELSE IF t = last_non_full
                                  THEN [keys[t] EXCEPT !.count = keys[t].count + 1]
                                  ELSE keys[t]]
             IN  [gen |-> keys2, out |-> Some(KVItems(keys2))]

\* Iterator::collect over KVPairIterator
RECURSIVE KVCollect(_)
KVCollect(keys) ==
    LET r == KVPairIterator_next(keys)
    IN  IF IsSome(r.out) THEN <<Unwrap(r.out)>> \o KVCollect(r.gen) ELSE <<>>

\* ------------------------------------------------------------------------
\* SubsetPermutationGenerator
\* ------------------------------------------------------------------------
PairCounts(items) == [k \in DOMAIN items |-> items[k][2]]

\* the sort key of new(): minus the number of values drawn
SortKeyAscendingMutant(items) == SumSeq(PairCounts(items))

SortKey(items) == -SumSeq(PairCounts(items))

\* stable insertion of x into a vector sorted by ascending key
RECURSIVE InsertByKey(_, _)
InsertByKey(sorted, x) ==
    IF sorted = <<>> THEN <<x>>
    ELSE IF SortKey(sorted[Len(sorted)]) <= SortKey(x)
         THEN Append(sorted, x)
         ELSE Append(InsertByKey(SubSeq(sorted, 1, Len(sorted) - 1), x),
                     sorted[Len(sorted)])

\* Vec::sort_by_cached_key (stable, ascending key)
RECURSIVE SortByCachedKey(_)
SortByCachedKey(v) ==
    IF v = <<>> THEN <<>>
    ELSE InsertByKey(SortByCachedKey(SubSeq(v, 1, Len(v) - 1)), v[Len(v)])

SubsetPermutationGenerator_new(t) ==
    [subsets |-> SortByCachedKey(KVCollect(KVPairIterator_from(KeyCount_from_iter(t)))),
     permutation_generator |-> None]

RECURSIVE SubsetPermutationGenerator_next(_)
SubsetPermutationGenerator_next(g) ==
    IF ~IsSome(g.permutation_generator) /\ g.subsets = <<>>
    THEN [gen |-> g, out |-> None]
    ELSE LET g1 == IF IsSome(g.permutation_generator) THEN g
                   ELSE [subsets |-> SubSeq(g.subsets, 1, Len(g.subsets) - 1),
                         permutation_generator |->
                            Some(PermutationGenerator_from_iter(
                                     g.subsets[Len(g.subsets)]))]
             r == PermutationGenerator_next(Unwrap(g1.permutation_generator))
         IN  IF IsSome(r.out)
             THEN [gen |-> [g1 EXCEPT !.permutation_generator = Some(r.gen)],
                   out |-> r.out]
             ELSE SubsetPermutationGenerator_next(
                      [g1 EXCEPT !.permutation_generator = None])

\* ------------------------------------------------------------------------
\* Values: the bounded unsigned integer type T and its checked operations
\* ------------------------------------------------------------------------
\* T = u8
TBits == 8

TModulus == 2 ^ TBits

ZERO == 0

ONE == 1

checked_add(a, b) == IF a + b >= TModulus THEN None ELSE Some(a + b)

checked_sub(a, b) == IF a - b < 0 THEN None ELSE Some(a - b)

checked_mul(a, b) == IF a * b >= TModulus THEN None ELSE Some(a * b)

checked_div_ExactMutant(a, b) ==
    IF b = 0 \/ a % b # 0 THEN None ELSE Some(a \div b)

checked_div(a, b) == IF b = 0 THEN None ELSE Some(a \div b)

\* a * b without an overflow check (release build: wraps)
WrappingMul(a, b) == (a * b) % TModulus

\* NumberType::is_prime: the trial loop starting at a = 2
RECURSIVE is_prime_loop(_, _)
is_prime_loop(self, a) ==
    IF WrappingMul(a, a) <= self
    THEN IF a % self = ZERO THEN FALSE ELSE is_prime_loop(self, a + ONE)
    ELSE TRUE

is_prime(self) == is_prime_loop(self, ONE + ONE)

\* ------------------------------------------------------------------------
\* Number systems
\* ------------------------------------------------------------------------
NormalNumberSystem == [kind |-> "Normal", base |-> 0, prime |-> FALSE]

\* ModularNumberSystem(base, base.is_prime())
ModularNumberSystem_new(base) ==
    [kind |-> "Modular", base |-> base, prime |-> is_prime(base)]

Normal_add_NoOrderMutant(one, other) ==
    IF one # ZERO /\ other # ZERO THEN checked_add(one, other) ELSE None

Normal_add(one, other) ==
    IF one > other /\ one # ZERO /\ other # ZERO THEN checked_add(one, other) ELSE None

Normal_sub(one, other) ==
    IF one > other /\ one # ZERO /\ other # ZERO THEN checked_sub(one, other) ELSE None

Normal_mul_WrappingMutant(one, other) ==
    IF one > other /\ one # ONE /\ other # ONE
    THEN Some(WrappingMul(one, other)) ELSE None

Normal_mul(one, other) ==
    IF one > other /\ one # ONE /\ other # ONE THEN checked_mul(one, other) ELSE None

Normal_div(one, other) ==
    IF one > other /\ one # ONE /\ other # ONE THEN checked_div(one, other) ELSE None

\* in_range: subtract the modulus while t >= modulus (t is unsigned, never < 0)
RECURSIVE t_into_range(_, _)
t_into_range(ns, t) == IF t >= ns.base THEN t_into_range(ns, t - ns.base) ELSE t

\* pow: n times v = t_into_range(v * t), starting from ONE. The n
\* iterations are evaluated as the first n \div 2 of them followed by the
\* rest, which keeps the evaluation shallow; the test of half has the first
\* part computed before the second starts.
RECURSIVE pow_loop(_, _, _, _)
pow_loop(ns, t, n, v) ==
    IF n = 0 THEN v
    ELSE IF n = 1 THEN t_into_range(ns, WrappingMul(v, t))
    ELSE LET half == pow_loop(ns, t, n \div 2, v)
         IN  IF half >= ZERO THEN pow_loop(ns, t, n - n \div 2, half) ELSE half

pow(ns, t, n) == pow_loop(ns, t, n, ONE)

multiplicative_inverse(ns, t) == pow(ns, t, ns.base - ONE)

\* The debug_assert!s on the operands (one, other < base) are compiled out
\* of a release build, which is the build modelled: an operand outside
\* [0, base) is computed with as written.
Modular_add(ns, one, other) ==
    LET s == checked_add(one, other)
    IN  IF IsSome(s) THEN Some(t_into_range(ns, Unwrap(s))) ELSE None

Modular_sub(ns, one, other) ==
    IF one # other
    THEN LET d == checked_sub(ns.base, other)
         IN  IF IsSome(d) THEN Modular_add(ns, one, Unwrap(d)) ELSE None
    ELSE None

Modular_mul(ns, one, other) ==
    LET s == checked_mul(one, other)
    IN  IF IsSome(s) THEN Some(t_into_range(ns, Unwrap(s))) ELSE None

Modular_div(ns, one, other) ==
    IF ~ns.prime THEN None
    ELSE Modular_mul(ns, one, multiplicative_inverse(ns, other))

\* ------------------------------------------------------------------------
\* Operators
\* ------------------------------------------------------------------------
Operator == {"Add", "Sub", "Mul", "Div"}

\* the discriminant of an Operator (repr(u8))
OperatorBit(op) ==
    CASE op = "Add" -> 1 [] op = "Sub" -> 2 [] op = "Mul" -> 4 [] op = "Div" -> 8

\* transmute::<u8, Operator> of a single-bit value
OperatorOfBit(b) == CHOOSE op \in Operator : OperatorBit(op) = b

RECURSIVE BitAnd(_, _)
BitAnd(x, y) ==
    IF x = 0 \/ y = 0 THEN 0
    ELSE 2 * BitAnd(x \div 2, y \div 2) + (IF x % 2 = 1 /\ y % 2 = 1 THEN 1 ELSE 0)

RECURSIVE BitOr(_, _)
BitOr(x, y) ==
    IF x = 0 THEN y ELSE IF y = 0 THEN x
    ELSE 2 * BitOr(x \div 2, y \div 2) + (IF x % 2 = 1 \/ y % 2 = 1 THEN 1 ELSE 0)

Operators_ALL == 15

\* Operators::from_iter over the operators of a sequence
RECURSIVE Operators_from_iter(_)
Operators_from_iter(ops) ==
    IF ops = <<>> THEN 0
    ELSE BitOr(Operators_from_iter(SubSeq(ops, 1, Len(ops) - 1)),
               OperatorBit(ops[Len(ops)]))

Operators_into_iter_SkipAddMutant(operators) == [value |-> operators, current_bit |-> 2]

Operators_into_iter(operators) == [value |-> operators, current_bit |-> 1]

\* OperatorIterator::next: result is [gen, out]
RECURSIVE OperatorIterator_next(_)
OperatorIterator_next(it) ==
    IF it.current_bit = 0 THEN [gen |-> it, out |-> None]
    ELSE LET mask == it.current_bit
         IN  IF BitAnd(mask, 15) = 0 THEN [gen |-> it, out |-> None]
             ELSE LET it2 == [it EXCEPT !.current_bit = (2 * mask) % 256]
                  IN  IF BitAnd(it.value, mask) # 0
                      THEN [gen |-> it2,
                            out |-> Some(OperatorOfBit(BitAnd(it.value, mask)))]
                      ELSE OperatorIterator_next(it2)

\* the operators a `for oper in *operators` loop visits, in order
RECURSIVE OperatorIterator_collect(_)
OperatorIterator_collect(it) ==
    LET r == OperatorIterator_next(it)
    IN  IF IsSome(r.out) THEN <<Unwrap(r.out)>> \o OperatorIterator_collect(r.gen)
        ELSE <<>>

\* Operator::apply
apply(oper, ns, one, other) ==
    IF ns.kind = "Normal"
    THEN CASE oper = "Add" -> Normal_add(one, other)
           [] oper = "Sub" -> Normal_sub(one, other)
           [] oper = "Mul" -> Normal_mul(one, other)
           [] oper = "Div" -> Normal_div(one, other)
    ELSE CASE oper = "Add" -> Modular_add(ns, one, other)
           [] oper = "Sub" -> Modular_sub(ns, one, other)
           [] oper = "Mul" -> Modular_mul(ns, one, other)
           [] oper = "Div" -> Modular_div(ns, one, other)

\* ------------------------------------------------------------------------
\* Expressions
\* ------------------------------------------------------------------------
\* An Application holds the memoized value, the operator and the two
\* children; generate_tree passes them as (oper, left, right, a).
Value(t) == [kind |-> "Value", value |-> t]

Application(oper, left, right, a) ==
    [kind |-> "Application", value |-> a, op |-> oper, left |-> left, right |-> right]

get_value(e) == e.value

is_valid_LeftChildMutant(e) ==
    IF e.kind = "Value" THEN TRUE
    ELSE IF e.value = ZERO THEN FALSE
    ELSE IF e.op \in {"Add", "Mul"}
              /\ e.left.kind = "Application"
              /\ e.left.op = e.op
         THEN FALSE
         ELSE TRUE

is_valid(e) ==
    IF e.kind = "Value" THEN TRUE
    ELSE IF e.value = ZERO THEN FALSE
    ELSE IF e.op \in {"Add", "Mul"}
              /\ e.right.kind = "Application"
              /\ e.right.op = e.op
         THEN FALSE
         ELSE TRUE

\* re_eval: None stands for the failed unwrap (a panic)
RECURSIVE re_eval(_, _)
re_eval(e, ns) ==
    IF e.kind = "Value" THEN Some(e.value)
    ELSE LET left == re_eval(e.left, ns)
             right == re_eval(e.right, ns)
         IN  IF IsSome(left) /\ IsSome(right)
             THEN apply(e.op, ns, Unwrap(left), Unwrap(right))
             ELSE None

check(e, ns) == re_eval(e, ns) = Some(get_value(e))

\* ------------------------------------------------------------------------
\* generate_tree and find_expressions
\* ------------------------------------------------------------------------
\* the sequences of ss one after the other (halved, to stay shallow)
RECURSIVE Concat(_)
Concat(ss) ==
    IF ss = <<>> THEN <<>>
    ELSE IF Len(ss) = 1 THEN ss[1]
    ELSE LET h == Len(ss) \div 2
         IN  Concat(SubSeq(ss, 1, h)) \o Concat(SubSeq(ss, h + 1, Len(ss)))

CombineSwappedMutant(oper, ns, left_expr, right_expr) ==
    LET a == apply(oper, ns, get_value(left_expr), get_value(right_expr))
    IN  IF ~IsSome(a) THEN <<>>
        ELSE IF Unwrap(a) = ZERO THEN <<>>
        ELSE LET expr == Application(oper, right_expr, left_expr, Unwrap(a))
             IN  IF is_valid(expr) THEN <<expr>> ELSE <<>>

CombineNoPruneMutant(oper, ns, left_expr, right_expr) ==
    LET a == apply(oper, ns, get_value(left_expr), get_value(right_expr))
    IN  IF ~IsSome(a) THEN <<>>
        ELSE <<Application(oper, left_expr, right_expr, Unwrap(a))>>

\* the body of the operator loop for one pair (left_expr, right_expr):
\* what is sent for one operator
Combine(oper, ns, left_expr, right_expr) ==
    LET a == apply(oper, ns, get_value(left_expr), get_value(right_expr))
    IN  IF ~IsSome(a) THEN <<>>
        ELSE IF Unwrap(a) = ZERO THEN <<>>
        ELSE LET expr == Application(oper, left_expr, right_expr, Unwrap(a))
             IN  IF is_valid(expr) THEN <<expr>> ELSE <<>>

\* the expressions generate_tree sends to `results`, in order
RECURSIVE generate_tree(_, _, _)
generate_tree(source_numbers, ns, operators) ==
    IF Len(source_numbers) = 1 THEN <<Value(source_numbers[1])>>
    ELSE LET opers == OperatorIterator_collect(Operators_into_iter(operators))
             Split(mid) ==
                 LET left == generate_tree(SubSeq(source_numbers, 1, mid), ns, operators)
                     right == generate_tree(
                                  SubSeq(source_numbers, mid + 1, Len(source_numbers)),
                                  ns, operators)
                 IN  Concat([li \in DOMAIN left |->
                        Concat([ri \in DOMAIN right |->
                           Concat([oi \in DOMAIN opers |->
                              Combine(opers[oi], ns, left[li], right[ri])])])])
         IN  Concat([mid \in 1..(Len(source_numbers) - 1) |-> Split(mid)])

SenderFilterPassAllMutant(items, target) == items

\* SenderFilter::send over a batch: the items the predicate lets through
SenderFilter_send(items, target) ==
    SelectSeq(items, LAMBDA a : get_value(a) = target)

\* the nodes of an expression, the root included
RECURSIVE Nodes(_)
Nodes(e) ==
    IF e.kind = "Value" THEN {e} ELSE {e} \cup Nodes(e.left) \cup Nodes(e.right)

\* ------------------------------------------------------------------------
\* State
\* ------------------------------------------------------------------------
VARIABLES
    input,                  \* the argument the generator was constructed from
    permutation_generator,  \* a PermutationGenerator driven on its own
    kv_iterator,            \* a KVPairIterator driven on its own
    subset_permutations,    \* a SubsetPermutationGenerator
    yielded,                \* the items next() has returned so far, in order
    exhausted,              \* next() has returned None
    number_system,          \* the NumberSystem in use
    one,                    \* first operand of the last operation
    other,                  \* second operand of the last operation
    last_op,                \* the operation applied last, None before the first
    result,                 \* what that operation returned
    source_numbers,         \* find_expressions: the source numbers
    target_number,          \* find_expressions: the target
    operators,              \* find_expressions: the allowed operators (bit mask)
    generated,              \* what the latest generate_tree call sent to its sender
    emitted,                \* history: everything generate_tree has sent to its
                            \* sender so far, in a run that records it
    sent,                   \* what reached the downstream sender, in order
    pc,                     \* find_expressions: "loop", "send" (inside a send of
                            \* generate_tree), "returned" or "panicked"
    done,                   \* set_done has been called on the downstream sender
    unique_generator,       \* a UniquePermutationGenerator driven on its own
    none_returns,           \* how many times its next() has returned None
    remaining,              \* per permutation the for loop has not reached yet: the
                            \* results generate_tree and the filter will pass on
    pending,                \* results of the current generate_tree call that passed
                            \* the filter and are still to go through ThreadSender::send
    set_done_calls,         \* calls of sender.set_done() made by find_expressions
    thread_sender,          \* ThreadSender.0: Some(SyncSender) or None
    queue,                  \* the buffer of the sync_channel
    last_send,              \* how the latest ThreadSender::send ended, None before it
    receiver_dropped,       \* the ThreadReceiver has been dropped
    receiver_done,          \* ThreadReceiver.1, what isdone() returns
    received,               \* the items the consumer obtained from next(), in order
    consumer,               \* the consumer: "isdone" / "receive" (inside
                            \* ReceiverToIterator::next), "ended", "joined",
                            \* "stopped" or "dropped"
    operator_iterator,      \* an OperatorIterator driven on its own
    last_call,              \* the latest call made on a sender or on an adapter
                            \* around it, None before the first
    blocked_set_done_calls, \* calls of BlockedSender::set_done
    shared_queue,           \* the VecDeque behind the Arc<Mutex<..>> of a
                            \* ConcurrentCachingTransiever and of its clones
    sender_handle,          \* the handle that sends: its own done flag
    receiver_handle,        \* its clone that receives: None before clone()
    handle_pending,         \* the items the sending handle has yet to send
    handle_received,        \* what receive() on the clone has returned
    last_isdone             \* the latest isdone() on the clone, with its context

genVars == <<input, permutation_generator, kv_iterator, subset_permutations,
             yielded, exhausted>>

numVars == <<one, other, last_op, result>>

searchVars == <<source_numbers, target_number, operators, generated, emitted, sent,
                pc, done>>

uniqueVars == <<unique_generator, none_returns>>

operatorVars == <<operator_iterator>>

callerVars == <<last_call, blocked_set_done_calls>>

cachingVars == <<shared_queue, sender_handle, receiver_handle, handle_pending,
                 handle_received, last_isdone>>

channelVars == <<thread_sender, queue, last_send, receiver_dropped, receiver_done>>

pipeVars == <<remaining, pending, set_done_calls, channelVars, received, consumer>>

vars == <<genVars, number_system, numVars, searchVars, uniqueVars, pipeVars, operatorVars, callerVars, cachingVars>>

\* the parts of the state a specification does not use
NumIdle ==
    /\ one = 0
    /\ other = 0
    /\ last_op = None
    /\ result = None

SearchIdle ==
    /\ source_numbers = <<>>
    /\ target_number = 0
    /\ operators = 0
    /\ generated = <<>>
    /\ emitted = <<>>
    /\ sent = <<>>
    /\ pc = "idle"
    /\ done = FALSE

UniqueIdle ==
    /\ unique_generator = <<>>
    /\ none_returns = 0

PipeIdle ==
    /\ remaining = <<>>
    /\ pending = <<>>
    /\ set_done_calls = 0
    /\ thread_sender = None
    /\ queue = <<>>
    /\ last_send = None
    /\ receiver_dropped = FALSE
    /\ receiver_done = FALSE
    /\ received = <<>>
    /\ consumer = "idle"

OperatorIdle == operator_iterator = <<>>

CachingIdle ==
    /\ shared_queue = <<>>
    /\ sender_handle = None
    /\ receiver_handle = None
    /\ handle_pending = <<>>
    /\ handle_received = <<>>
    /\ last_isdone = None

CallerIdle ==
    /\ last_call = None
    /\ blocked_set_done_calls = 0

NoSearch ==
    /\ NumIdle
    /\ SearchIdle
    /\ UniqueIdle
    /\ PipeIdle
    /\ OperatorIdle
    /\ CallerIdle
    /\ CachingIdle
    /\ number_system = NormalNumberSystem

\* ------------------------------------------------------------------------
\* Inputs
\* ------------------------------------------------------------------------
Keys == 1..MaxKeys

\* (value, multiplicity) pairs in ascending value order, as KVPairIterator emits them
PairInputs ==
    {p \in [Keys -> (Keys \X (0..MaxMult))] :
        /\ \A k \in Keys : p[k][1] = k
        /\ SumSeq(PairCounts(p)) <= MaxTotal}

\* value -> multiplicity maps as KeyCount::from_iter builds them (counts >= 1)
KeyCountInputs ==
    UNION {[K -> 1..MaxMult] : K \in SUBSET Keys}

RECURSIVE SeqsUpTo(_, _)
SeqsUpTo(S, n) ==
    IF n = 0 THEN {<<>>}
    ELSE LET shorter == SeqsUpTo(S, n - 1)
         IN  shorter \cup {Append(s, x) : s \in {t \in shorter : Len(t) = n - 1}, x \in S}

ListInputs == SeqsUpTo(1..MaxListVal, MaxListLen)

\* ------------------------------------------------------------------------
\* PermutationGenerator on its own
\* ------------------------------------------------------------------------
InitPerm ==
    /\ NoSearch
    /\ input \in PairInputs
    /\ permutation_generator = PermutationGenerator_from_iter(input)
    /\ kv_iterator = <<>>
    /\ subset_permutations = <<>>
    /\ yielded = <<>>
    /\ exhausted = FALSE

\* one call of PermutationGenerator::next
Perm_next ==
    LET r == PermutationGenerator_next(permutation_generator)
    IN  /\ permutation_generator' = r.gen
        /\ IF IsSome(r.out)
           THEN yielded' = Append(yielded, Unwrap(r.out)) /\ UNCHANGED exhausted
           ELSE exhausted' = TRUE /\ UNCHANGED yielded
        /\ UNCHANGED <<input, kv_iterator, subset_permutations>>
        /\ UNCHANGED <<number_system, numVars, searchVars, uniqueVars, pipeVars, operatorVars, callerVars, cachingVars>>

NextPerm == Perm_next

SpecPerm == InitPerm /\ [][NextPerm]_vars

\* ------------------------------------------------------------------------
\* KVPairIterator on its own
\* ------------------------------------------------------------------------
InitKV ==
    /\ NoSearch
    /\ input \in KeyCountInputs
    /\ kv_iterator = KVPairIterator_from(input)
    /\ permutation_generator = <<>>
    /\ subset_permutations = <<>>
    /\ yielded = <<>>
    /\ exhausted = FALSE

\* one call of KVPairIterator::next
KV_next ==
    LET r == KVPairIterator_next(kv_iterator)
    IN  /\ kv_iterator' = r.gen
        /\ IF IsSome(r.out)
           THEN yielded' = Append(yielded, Unwrap(r.out)) /\ UNCHANGED exhausted
           ELSE exhausted' = TRUE /\ UNCHANGED yielded
        /\ UNCHANGED <<input, permutation_generator, subset_permutations>>
        /\ UNCHANGED <<number_system, numVars, searchVars, uniqueVars, pipeVars, operatorVars, callerVars, cachingVars>>

NextKV == KV_next

SpecKV == InitKV /\ [][NextKV]_vars

\* ------------------------------------------------------------------------
\* SubsetPermutationGenerator on its own
\* ------------------------------------------------------------------------
InitSubPerm ==
    /\ NoSearch
    /\ input \in ListInputs
    /\ subset_permutations = SubsetPermutationGenerator_new(input)
    /\ permutation_generator = <<>>
    /\ kv_iterator = <<>>
    /\ yielded = <<>>
    /\ exhausted = FALSE

\* one call of SubsetPermutationGenerator::next
SubPerm_next ==
    LET r == SubsetPermutationGenerator_next(subset_permutations)
    IN  /\ subset_permutations' = r.gen
        /\ IF IsSome(r.out)
           THEN yielded' = Append(yielded, Unwrap(r.out)) /\ UNCHANGED exhausted
           ELSE exhausted' = TRUE /\ UNCHANGED yielded
        /\ UNCHANGED <<input, permutation_generator, kv_iterator>>
        /\ UNCHANGED <<number_system, numVars, searchVars, uniqueVars, pipeVars, operatorVars, callerVars, cachingVars>>

NextSubPerm == SubPerm_next

SpecSubPerm == InitSubPerm /\ [][NextSubPerm]_vars

\* ------------------------------------------------------------------------
\* UniquePermutationGenerator on its own, called on after it returned None
\* ------------------------------------------------------------------------
\* sequences of distinct elements, the empty one included
UniqueInputs ==
    {l \in SeqsUpTo(1..MaxUniqueLen, MaxUniqueLen) :
        \A i, j \in DOMAIN l : i # j => l[i] # l[j]}

InitUnique ==
    /\ NumIdle
    /\ SearchIdle
    /\ PipeIdle
    /\ OperatorIdle
    /\ CallerIdle
    /\ CachingIdle
    /\ number_system = NormalNumberSystem
    /\ input \in UniqueInputs
    /\ unique_generator = UniquePermutationGenerator_new(input)
    /\ none_returns = 0
    /\ permutation_generator = <<>>
    /\ kv_iterator = <<>>
    /\ subset_permutations = <<>>
    /\ yielded = <<>>
    /\ exhausted = FALSE

\* one call of UniquePermutationGenerator::next
Unique_next ==
    /\ none_returns < MaxNoneReturns
    /\ LET r == UniqueNext(unique_generator)
       IN  /\ unique_generator' = r.gen
           /\ IF IsSome(r.out)
              THEN /\ yielded' = Append(yielded, Unwrap(r.out))
                   /\ UNCHANGED <<exhausted, none_returns>>
              ELSE /\ exhausted' = TRUE
                   /\ none_returns' = none_returns + 1
                   /\ UNCHANGED yielded
    /\ UNCHANGED <<input, permutation_generator, kv_iterator, subset_permutations>>
    /\ UNCHANGED <<number_system, numVars, searchVars, pipeVars, operatorVars, callerVars, cachingVars>>

NextUnique == Unique_next

SpecUnique == InitUnique /\ [][NextUnique]_vars

\* ------------------------------------------------------------------------
\* Operators::from_iter followed by the iteration of the set
\* ------------------------------------------------------------------------
\* what from_iter is given: operators in any order, repetitions included
OperatorInputs == SeqsUpTo(Operator, MaxOperatorListLen)

InitOperators ==
    /\ NumIdle
    /\ SearchIdle
    /\ UniqueIdle
    /\ PipeIdle
    /\ CallerIdle
    /\ CachingIdle
    /\ number_system = NormalNumberSystem
    /\ input \in OperatorInputs
    /\ operator_iterator = Operators_into_iter(Operators_from_iter(input))
    /\ permutation_generator = <<>>
    /\ kv_iterator = <<>>
    /\ subset_permutations = <<>>
    /\ yielded = <<>>
    /\ exhausted = FALSE

\* one call of OperatorIterator::next
Operators_next ==
    /\ LET r == OperatorIterator_next(operator_iterator)
       IN  /\ operator_iterator' = r.gen
           /\ IF IsSome(r.out)
              THEN yielded' = Append(yielded, Unwrap(r.out)) /\ UNCHANGED exhausted
              ELSE exhausted' = TRUE /\ UNCHANGED yielded
    /\ UNCHANGED <<input, permutation_generator, kv_iterator, subset_permutations>>
    /\ UNCHANGED <<number_system, numVars, searchVars, uniqueVars, pipeVars, callerVars, cachingVars>>

NextOperators == Operators_next

SpecOperators == InitOperators /\ [][NextOperators]_vars

\* ------------------------------------------------------------------------
\* Properties of the generators
\* ------------------------------------------------------------------------
Count(s, v) == Cardinality({k \in DOMAIN s : s[k] = v})

\* every arrangement of the multiset given by (value, multiplicity) pairs
Arrangements(pairs) ==
    LET n == SumSeq(PairCounts(pairs))
    IN  {s \in [1..n -> {pairs[k][1] : k \in DOMAIN pairs}] :
            \A k \in DOMAIN pairs : Count(s, pairs[k][1]) = pairs[k][2]}

MultinomialCount(pairs) ==
    Factorial(SumSeq(PairCounts(pairs)))
        \div ProdSeq([k \in DOMAIN pairs |-> Factorial(pairs[k][2])])

\* C1: PermutationGenerator never yields a value sequence twice, yields only
\* arrangements of the multiset, and once next() has returned None it has
\* yielded every arrangement, n! / prod(multiplicity_i!) of them.
C1_PermutationsExactlyOnce ==
    /\ NoDuplicates(yielded)
    /\ Range(yielded) \subseteq Arrangements(input)
    /\ exhausted =>
          /\ Range(yielded) = Arrangements(input)
          /\ Len(yielded) = MultinomialCount(input)

C1_Witness ==
    /\ exhausted
    /\ input = <<<<1, 2>>, <<2, 1>>, <<3, 1>>>>
    /\ Len(yielded) = 12

\* every count vector 0 <= taken <= multiplicity over the keys, in key order
CountVectors(keycount) ==
    LET ks == SortedKeys(DOMAIN keycount)
    IN  {v \in [DOMAIN ks -> (DOMAIN keycount) \X (0..MaxMult)] :
            \A k \in DOMAIN ks : v[k][1] = ks[k] /\ v[k][2] <= keycount[ks[k]]}

AllZero(v) == \A k \in DOMAIN v : v[k][2] = 0

\* C2: KVPairIterator yields only count vectors within the multiplicities,
\* never the all-zero vector, none twice, and once next() has returned None
\* it has yielded all prod(multiplicity_i + 1) - 1 of them.
C2_CountVectorsExactlyOnce ==
    /\ NoDuplicates(yielded)
    /\ \A k \in DOMAIN yielded :
          yielded[k] \in CountVectors(input) /\ ~AllZero(yielded[k])
    /\ exhausted =>
          /\ Range(yielded) = {v \in CountVectors(input) : ~AllZero(v)}
          /\ Len(yielded) =
                ProdSeq([k \in 1..Cardinality(DOMAIN input) |->
                            input[SortedKeys(DOMAIN input)[k]] + 1]) - 1

C2_Witness ==
    /\ exhausted
    /\ DOMAIN input = {1, 2, 3}
    /\ input[1] = 2 /\ input[2] = 1 /\ input[3] = 2
    /\ Len(yielded) = 17

\* every ordered sequence of every non-empty sub-multiset of the list
SubArrangements(list) ==
    {s \in SeqsUpTo(Range(list), Len(list)) :
        /\ s # <<>>
        /\ \A v \in Range(list) : Count(s, v) <= Count(list, v)}

\* C3: SubsetPermutationGenerator yields no sequence twice, only ordered
\* sequences of non-empty sub-multisets of the input, and once next() has
\* returned None it has yielded every one of them (none for the empty list).
C3_SubsetPermutationsExactlyOnce ==
    /\ NoDuplicates(yielded)
    /\ Range(yielded) \subseteq SubArrangements(input)
    /\ exhausted => Range(yielded) = SubArrangements(input)
    /\ input = <<>> => yielded = <<>>

C3_Witness ==
    /\ exhausted
    /\ input = <<2, 1, 2>>
    /\ Len(yielded) = 8

\* every ordering of a sequence of distinct elements
Orderings(list) ==
    {s \in [DOMAIN list -> Range(list)] : Range(s) = Range(list)}

\* C18: for an input of n distinct elements (n >= 0) UniquePermutationGenerator
\* yields only orderings of the input, none twice, and once next() has returned
\* None it has yielded every ordering, n! of them; later calls of next() return
\* None too, so the yielded sequence no longer grows.
C18_UniquePermutationsExactlyOnce ==
    /\ Cardinality(Range(yielded)) = Len(yielded)
    /\ \A k \in DOMAIN yielded :
          Len(yielded[k]) = Len(input) /\ Range(yielded[k]) = Range(input)
    /\ exhausted =>
          /\ Len(yielded) = Factorial(Len(input))
          /\ Range(yielded) = Orderings(input)

C18_Witness ==
    /\ none_returns = MaxNoneReturns
    /\ input = <<2, 3, 1>>
    /\ Len(yielded) = 6

C18_WitnessEmpty ==
    /\ none_returns = MaxNoneReturns
    /\ input = <<>>
    /\ yielded = << <<>> >>

\* ------------------------------------------------------------------------
\* The number systems on their own: operations applied to drawn operands
\* ------------------------------------------------------------------------
\* a modulus in the upper half of T's range, where sums and products of
\* residues leave the range
LargeModuli == {TModulus \div 2 + 1}

NumberSystems ==
    {NormalNumberSystem}
        \cup {ModularNumberSystem_new(m) : m \in (1..MaxModulus) \cup LargeModuli}

\* operands: the small values and the values around the middle and the
\* top of T's range, where the exact results leave the range
Operands ==
    (0..MaxOperand)
        \cup {TModulus \div 2 - 1, TModulus \div 2, TModulus - 2, TModulus - 1}

InitNum ==
    /\ number_system \in NumberSystems
    /\ one \in Operands
    /\ other \in Operands
    \* the operands of a modular system are residues (debug_assert: < base)
    \* or small; the values near the top of T's range go to the ordinary
    \* system and, as far as they are residues, to the large moduli
    /\ number_system.kind = "Modular" =>
          /\ one <= MaxOperand \/ one < number_system.base
          /\ other <= MaxOperand \/ other < number_system.base
    /\ last_op = None
    /\ result = None
    /\ SearchIdle
    /\ UniqueIdle
    /\ PipeIdle
    /\ OperatorIdle
    /\ CallerIdle
    /\ CachingIdle
    /\ input = <<>>
    /\ permutation_generator = <<>>
    /\ kv_iterator = <<>>
    /\ subset_permutations = <<>>
    /\ yielded = <<>>
    /\ exhausted = FALSE

Num_apply(oper) ==
    /\ last_op' = Some(oper)
    /\ result' = apply(oper, number_system, one, other)
    /\ UNCHANGED <<number_system, one, other, genVars, searchVars, uniqueVars, pipeVars, operatorVars, callerVars, cachingVars>>

Num_add == Num_apply("Add")

Num_sub == Num_apply("Sub")

Num_mul == Num_apply("Mul")

Num_div == Num_apply("Div")

NextNum == Num_add \/ Num_sub \/ Num_mul \/ Num_div

SpecNum == InitNum /\ [][NextNum]_vars

\* ------------------------------------------------------------------------
\* find_expressions: the search driver
\* ------------------------------------------------------------------------
\* the inputs a search is started with: source numbers, targets, moduli of
\* the modular systems, and the operator lists handed to Operators::from_iter
SourceValues == {0, 1, 2, 3}

\* find_expressions reads source_numbers only through KeyCount::from_iter,
\* which counts occurrences into a BTreeMap: the order of the list does not
\* reach the search, so one list per multiset (the non-decreasing one) is drawn
SourceLists ==
    {l \in SeqsUpTo(SourceValues, MaxSourceLen) :
        \A i, j \in DOMAIN l : i < j => l[i] <= l[j]}

Targets == {0, 2, 3}

SearchModuli == {3, 4, 5}

OperatorLists ==
    {<<>>, <<"Add">>, <<"Sub">>, <<"Div">>, <<"Mul", "Add">>, <<"Div", "Sub">>,
     <<"Add", "Sub", "Mul", "Div">>}

SearchSystems ==
    {NormalNumberSystem} \cup {ModularNumberSystem_new(m) : m \in SearchModuli}

\* find_expressions entered: the generator over the source numbers built,
\* nothing generated or sent yet
SearchStart ==
    /\ subset_permutations = SubsetPermutationGenerator_new(source_numbers)
    /\ generated = <<>>
    /\ emitted = <<>>
    /\ sent = <<>>
    /\ pc = "loop"
    /\ done = FALSE
    /\ NumIdle
    /\ UniqueIdle
    /\ PipeIdle
    /\ OperatorIdle
    /\ CallerIdle
    /\ CachingIdle
    /\ input = <<>>
    /\ permutation_generator = <<>>
    /\ kv_iterator = <<>>
    /\ yielded = <<>>
    /\ exhausted = FALSE

\* a search over five distinct numbers with target 10
InitScenario ==
    /\ source_numbers = <<5, 4, 3, 2, 1>>
    /\ target_number = 10
    /\ number_system = NormalNumberSystem
    /\ operators = Operators_ALL
    /\ SearchStart

Init ==
    /\ source_numbers \in SourceLists
    /\ target_number \in Targets
    /\ number_system \in SearchSystems
    /\ operators \in {Operators_from_iter(l) : l \in OperatorLists}
    /\ subset_permutations = SubsetPermutationGenerator_new(source_numbers)
    /\ generated = <<>>
    /\ emitted = <<>>
    /\ sent = <<>>
    /\ pc = "loop"
    /\ done = FALSE
    /\ NumIdle
    /\ UniqueIdle
    /\ PipeIdle
    /\ OperatorIdle
    /\ CallerIdle
    /\ CachingIdle
    /\ input = <<>>
    /\ permutation_generator = <<>>
    /\ kv_iterator = <<>>
    /\ yielded = <<>>
    /\ exhausted = FALSE

\* one iteration of the for loop: the next permutation goes through
\* generate_tree, whose sender is the blocked, filtered downstream sender
Find_permutation ==
    /\ pc = "loop"
    /\ LET r == SubsetPermutationGenerator_next(subset_permutations)
       IN  /\ IsSome(r.out)
           /\ subset_permutations' = r.gen
           /\ yielded' = Append(yielded, Unwrap(r.out))
           /\ generated' = generate_tree(Unwrap(r.out), number_system, operators)
           /\ sent' = sent \o SenderFilter_send(generated', target_number)
    /\ UNCHANGED <<source_numbers, target_number, operators, emitted, pc, done>>
    /\ UNCHANGED <<number_system, numVars>>
    /\ UNCHANGED <<input, permutation_generator, kv_iterator, exhausted>>
    /\ UNCHANGED <<uniqueVars, pipeVars, operatorVars, callerVars, cachingVars>>

\* the generator is exhausted: sender.set_done() and return
Find_done ==
    /\ pc = "loop"
    /\ LET r == SubsetPermutationGenerator_next(subset_permutations)
       IN  /\ ~IsSome(r.out)
           /\ subset_permutations' = r.gen
    /\ pc' = "returned"
    /\ done' = TRUE
    /\ UNCHANGED <<source_numbers, target_number, operators, generated, emitted, sent>>
    /\ UNCHANGED <<number_system, numVars>>
    /\ UNCHANGED <<input, permutation_generator, kv_iterator, yielded, exhausted>>
    /\ UNCHANGED <<uniqueVars, pipeVars, operatorVars, callerVars, cachingVars>>

Next == Find_permutation \/ Find_done

Spec == Init /\ [][Next]_vars

SpecScenario == InitScenario /\ [][Next]_vars

\* C4: every expression that reached the downstream sender has memoized
\* value equal to target_number.
C4_OnlyTargetDelivered ==
    \A k \in DOMAIN sent : get_value(sent[k]) = target_number

C4_Witness ==
    /\ pc = "returned"
    /\ Len(sent) > 1
    /\ \E k \in DOMAIN generated : get_value(generated[k]) # target_number

\* every expression generate_tree sent last, and every one delivered so far
Emitted == Range(generated) \cup Range(sent)

EmittedNodes == UNION {Nodes(e) : e \in Emitted}

\* C5: re-evaluating an emitted expression under the same number system
\* never meets an undefined operation and gives the memoized value, at the
\* root and at every sub-expression.
C5_ReEvalReproducesValue ==
    \A n \in EmittedNodes : re_eval(n, number_system) = Some(n.value)

C5_Witness ==
    /\ number_system.kind = "Modular"
    /\ \E e \in Range(generated) :
          /\ e.kind = "Application"
          /\ e.op = "Sub"
          /\ e.left.kind = "Application"
          /\ e.left.op = "Div"

\* C6 as stated: no emitted or delivered expression, Leaf or Application,
\* has memoized value ZERO.
C6_NoZeroValue ==
    \A e \in Emitted : get_value(e) # ZERO

\* C6 amended: an emitted or delivered expression with memoized value ZERO
\* is a Leaf whose source number is ZERO; no Application has value ZERO.
C6_ZeroOnlyAsSourceLeaf ==
    \A e \in Emitted :
        get_value(e) = ZERO => e.kind = "Value" /\ ZERO \in Range(source_numbers)

C6_Witness ==
    /\ target_number = ZERO
    /\ \E k \in DOMAIN sent : sent[k] = Value(ZERO)
    /\ \E e \in Range(generated) : e.kind = "Application"

\* C7: every Application node at every depth of an emitted expression has a
\* value other than ZERO, and under Add or Mul its right child is not an
\* Application with the same operator.
C7_ValidityAtEveryDepth ==
    \A n \in EmittedNodes :
        n.kind = "Application" =>
            /\ n.value # ZERO
            /\ (n.op = "Add" \/ n.op = "Mul") =>
                  ~(n.right.kind = "Application" /\ n.right.op = n.op)

C7_Witness ==
    /\ \E e \in Range(generated) :
          /\ e.kind = "Application"
          /\ e.op = "Add"
          /\ e.left.kind = "Application"
          /\ e.left.op = "Add"
    /\ \E e \in Range(generated) :
          /\ e.kind = "Application"
          /\ e.op = "Sub"
          /\ e.right.kind = "Application"
          /\ e.right.op = "Sub"

\* C8: a search for target ZERO over source numbers that do not contain
\* ZERO delivers nothing, whatever the operators; in particular for [3,3]
\* with Sub in the ordinary system.
C8_NoResultForZeroTarget ==
    (target_number = ZERO /\ ZERO \notin Range(source_numbers)) => sent = <<>>

C8_Witness ==
    /\ pc = "returned"
    /\ source_numbers = <<3, 3>>
    /\ operators = Operators_from_iter(<<"Sub">>)
    /\ number_system = NormalNumberSystem
    /\ target_number = ZERO
    /\ sent = <<>>

\* primality and compositeness as arithmetic defines them
IsPrime(m) == m > 1 /\ \A d \in 2..(m - 1) : m % d # 0

IsComposite(m) == m > 1 /\ ~IsPrime(m)

\* C9: under a prime modulus m, div(a, b) for a in [0,m), b in [1,m) returns
\* the c in [0,m) with c * b congruent to a mod m.
C9_DivMultipliesByInverse ==
    (/\ last_op = Some("Div")
     /\ number_system.kind = "Modular"
     /\ IsPrime(number_system.base)
     /\ one < number_system.base
     /\ other \in 1..(number_system.base - 1))
    => /\ IsSome(result)
       /\ Unwrap(result) \in 0..(number_system.base - 1)
       /\ (Unwrap(result) * other) % number_system.base = one

\* C10: under a composite modulus div returns no result for all operands.
C10_CompositeModulusDivNone ==
    (/\ last_op = Some("Div")
     /\ number_system.kind = "Modular"
     /\ IsComposite(number_system.base))
    => result = None

\* ------------------------------------------------------------------------
\* The threaded pipeline of run: find_expressions in a spawned thread sends
\* through a ThreadSender, the caller pulls from the ThreadReceiver through
\* ReceiverToIterator
\* ------------------------------------------------------------------------
\* channel(): std::sync::mpsc::sync_channel(10)
ChannelCapacity == 10

\* SyncSender::send returns at once only while the buffer has room
SyncSender_has_room_OffByOneMutant(q) == Len(q) <= ChannelCapacity

SyncSender_has_room(q) == Len(q) < ChannelCapacity

ThreadSender_set_done_KeepMutant(sender) == sender

\* ThreadSender::set_done: self.0 = None, which drops the SyncSender
ThreadSender_set_done(sender) == None

recv_timeout_LifoMutant(q, sender) ==
    IF q # <<>>
    THEN [kind |-> "Ok", value |-> Some(q[Len(q)]), rest |-> SubSeq(q, 1, Len(q) - 1)]
    ELSE IF IsSome(sender)
         THEN [kind |-> "Timeout", value |-> None, rest |-> q]
         ELSE [kind |-> "Disconnected", value |-> None, rest |-> q]

recv_timeout_DisconnectFirstMutant(q, sender) ==
    IF ~IsSome(sender)
    THEN [kind |-> "Disconnected", value |-> None, rest |-> q]
    ELSE IF q # <<>>
         THEN [kind |-> "Ok", value |-> Some(Head(q)), rest |-> Tail(q)]
         ELSE [kind |-> "Timeout", value |-> None, rest |-> q]

\* Receiver::recv_timeout: the oldest buffered item if there is one; with an
\* empty buffer Disconnected once the SyncSender is gone, Timeout otherwise
recv_timeout(q, sender) ==
    IF q # <<>>
    THEN [kind |-> "Ok", value |-> Some(Head(q)), rest |-> Tail(q)]
    ELSE IF IsSome(sender)
         THEN [kind |-> "Timeout", value |-> None, rest |-> q]
         ELSE [kind |-> "Disconnected", value |-> None, rest |-> q]

\* the searches the pipeline is run on: from no result to more results than
\* the channel buffers
PipeSources == {<<>>, <<3>>, <<1, 2>>, <<1, 1, 2>>}

PipeSystems == {NormalNumberSystem, ModularNumberSystem_new(4)}

PipeTargets == {3}

\* the for loop of find_expressions unrolled: for every permutation the
\* generator yields, in order, the expressions of generate_tree that pass
\* the filter, in the order generate_tree sends them
RECURSIVE PermutationResults(_, _, _, _)
PermutationResults(g, ns, ops, target) ==
    LET r == SubsetPermutationGenerator_next(g)
    IN  IF IsSome(r.out)
        THEN <<SenderFilter_send(generate_tree(Unwrap(r.out), ns, ops), target)>>
                \o PermutationResults(r.gen, ns, ops, target)
        ELSE <<>>

\* The permutations and what generate_tree makes of each are functions of
\* the arguments alone, not of the channel or the consumer: they are
\* computed once, when the thread is spawned, and the loop takes them one
\* iteration at a time.
InitPipe ==
    /\ source_numbers \in PipeSources
    /\ target_number \in PipeTargets
    /\ number_system \in PipeSystems
    /\ operators = Operators_ALL
    /\ remaining = PermutationResults(SubsetPermutationGenerator_new(source_numbers),
                                      number_system, operators, target_number)
    /\ subset_permutations = <<>>
    /\ generated = <<>>
    /\ emitted = <<>>
    /\ sent = <<>>
    /\ pc = "loop"
    /\ done = FALSE
    /\ pending = <<>>
    /\ set_done_calls = 0
    /\ thread_sender = Some("SyncSender")
    /\ queue = <<>>
    /\ last_send = None
    /\ receiver_dropped = FALSE
    /\ receiver_done = FALSE
    /\ received = <<>>
    /\ consumer = "isdone"
    /\ NumIdle
    /\ UniqueIdle
    /\ OperatorIdle
    /\ CallerIdle
    /\ CachingIdle
    /\ input = <<>>
    /\ permutation_generator = <<>>
    /\ kv_iterator = <<>>
    /\ yielded = <<>>
    /\ exhausted = FALSE

pipeFixed == <<source_numbers, target_number, operators, emitted, number_system, numVars,
               input, permutation_generator, kv_iterator, yielded, exhausted,
               uniqueVars, operatorVars, callerVars, cachingVars>>

producerVars == <<subset_permutations, generated, remaining, sent, pc, done, pending,
                  set_done_calls, thread_sender, last_send>>

consumerVars == <<receiver_dropped, receiver_done, received, consumer>>

Pipe_permutation_SetDoneMutant ==
    /\ pc = "loop"
    /\ remaining # <<>>
    /\ remaining' = Tail(remaining)
    /\ pending' = Head(remaining)
    /\ pc' = IF pending' = <<>> THEN "loop" ELSE "send"
    /\ thread_sender' = ThreadSender_set_done(thread_sender)
    /\ set_done_calls' = set_done_calls + 1
    /\ done' = TRUE
    /\ UNCHANGED <<subset_permutations, generated, sent, last_send, queue>>
    /\ UNCHANGED <<consumerVars, pipeFixed>>

\* one iteration of the for loop of find_expressions up to the first send:
\* of the expressions generate_tree makes of the next permutation, those
\* that pass the filter are the ones ThreadSender::send is called with
Pipe_permutation ==
    /\ pc = "loop"
    /\ remaining # <<>>
    /\ remaining' = Tail(remaining)
    /\ pending' = Head(remaining)
    /\ pc' = IF pending' = <<>> THEN "loop" ELSE "send"
    /\ UNCHANGED <<subset_permutations, generated, sent, done, set_done_calls,
                   thread_sender, last_send, queue>>
    /\ UNCHANGED <<consumerVars, pipeFixed>>

\* ThreadSender::send with the next result. None: false. Some: the
\* SyncSender's send blocks while the buffer is full, fails once the
\* receiver is dropped, and the failure is answered with panic!(); the
\* unwinding thread drops the ThreadSender (Drop: set_done)
ThreadSender_send ==
    /\ pc = "send"
    /\ IF ~IsSome(thread_sender)
       THEN /\ last_send' = Some([receiver_dropped |-> receiver_dropped,
                                  outcome |-> "false"])
            /\ pending' = Tail(pending)
            /\ pc' = IF pending' = <<>> THEN "loop" ELSE "send"
            /\ UNCHANGED <<sent, queue, thread_sender>>
       ELSE IF receiver_dropped
       THEN /\ last_send' = Some([receiver_dropped |-> TRUE, outcome |-> "panic"])
            /\ pc' = "panicked"
            /\ thread_sender' = ThreadSender_set_done(thread_sender)
            /\ UNCHANGED <<sent, queue, pending>>
       ELSE /\ SyncSender_has_room(queue)
            /\ queue' = Append(queue, Head(pending))
            /\ sent' = Append(sent, Head(pending))
            /\ last_send' = Some([receiver_dropped |-> FALSE, outcome |-> "true"])
            /\ pending' = Tail(pending)
            /\ pc' = IF pending' = <<>> THEN "loop" ELSE "send"
            /\ UNCHANGED thread_sender
    /\ UNCHANGED <<subset_permutations, generated, remaining, done, set_done_calls>>
    /\ UNCHANGED <<consumerVars, pipeFixed>>

\* the generator is exhausted: sender.set_done() and find_expressions returns
\* (the Drop of the ThreadSender at the end of the thread finds None already)
Pipe_return ==
    /\ pc = "loop"
    /\ remaining = <<>>
    /\ thread_sender' = ThreadSender_set_done(thread_sender)
    /\ set_done_calls' = set_done_calls + 1
    /\ done' = TRUE
    /\ pc' = "returned"
    /\ UNCHANGED <<subset_permutations, generated, remaining, sent, pending,
                   last_send, queue>>
    /\ UNCHANGED <<consumerVars, pipeFixed>>

\* ReceiverToIterator::next, top of the loop: isdone() ends the iteration
ReceiverToIterator_isdone ==
    /\ consumer = "isdone"
    /\ consumer' = IF receiver_done THEN "ended" ELSE "receive"
    /\ UNCHANGED <<receiver_dropped, receiver_done, received, queue>>
    /\ UNCHANGED <<producerVars, pipeFixed>>

\* ThreadReceiver::receive inside next: Ok breaks the loop with the item (the
\* caller stores it and calls next again), Disconnected sets the flag,
\* Timeout changes nothing; the latter two go round the loop
ThreadReceiver_receive ==
    /\ consumer = "receive"
    /\ LET r == recv_timeout(queue, thread_sender)
       IN  /\ queue' = r.rest
           /\ received' = IF r.kind = "Ok" THEN Append(received, Unwrap(r.value))
                          ELSE received
           /\ receiver_done' = IF r.kind = "Disconnected" THEN TRUE ELSE receiver_done
    /\ consumer' = "isdone"
    /\ UNCHANGED receiver_dropped
    /\ UNCHANGED <<producerVars, pipeFixed>>

\* run, after the iteration ended: t.join()
Run_join ==
    /\ consumer = "ended"
    /\ pc \in {"returned", "panicked"}
    /\ consumer' = "joined"
    /\ UNCHANGED <<receiver_dropped, receiver_done, received, queue>>
    /\ UNCHANGED <<producerVars, pipeFixed>>

\* a consumer other than run: it keeps the receiver but calls next no more
Consumer_stop ==
    /\ consumer = "isdone"
    /\ consumer' = "stopped"
    /\ UNCHANGED <<receiver_dropped, receiver_done, received, queue>>
    /\ UNCHANGED <<producerVars, pipeFixed>>

\* a consumer other than run: it drops the receiver between two calls of
\* next, and the buffered items with it
Consumer_drop ==
    /\ consumer \in {"isdone", "stopped"}
    /\ consumer' = "dropped"
    /\ receiver_dropped' = TRUE
    /\ queue' = <<>>
    /\ UNCHANGED <<receiver_done, received>>
    /\ UNCHANGED <<producerVars, pipeFixed>>

Producer == Pipe_permutation \/ ThreadSender_send \/ Pipe_return

Consumer == ReceiverToIterator_isdone \/ ThreadReceiver_receive \/ Run_join

\* the pipeline with any consumer
NextPipe ==
    \/ Pipe_permutation
    \/ ThreadSender_send
    \/ Pipe_return
    \/ ReceiverToIterator_isdone
    \/ ThreadReceiver_receive
    \/ Run_join
    \/ Consumer_stop
    \/ Consumer_drop

SpecPipe == InitPipe /\ [][NextPipe]_vars

\* the pipeline as run drives it: the consumer keeps pulling until the
\* iterator ends; both threads are scheduled again and again
NextRun == Producer \/ Consumer

SpecRun ==
    /\ InitPipe
    /\ [][NextRun]_vars
    /\ WF_vars(Producer)
    /\ WF_vars(Consumer)

\* C11: ThreadSender::send on a channel whose receiver has been dropped
\* returns false and does not panic.
C11_SendOnDroppedReceiverReturnsFalse ==
    (IsSome(last_send) /\ Unwrap(last_send).receiver_dropped)
    => Unwrap(last_send).outcome = "false"

IsPrefix(s, t) == Len(s) <= Len(t) /\ \A k \in DOMAIN s : s[k] = t[k]

\* what find_expressions delivers when run to the end without a channel
SequentialResults(g, ns, ops, target) == Concat(PermutationResults(g, ns, ops, target))

\* C12: what the consumer has obtained is always a prefix of what the
\* producer has sent, in the same order with nothing duplicated, dropped or
\* reordered (the rest is what the channel still buffers), and the order of
\* sending is the order of the sequential search, whatever the interleaving.
C12_ReceivedIsPrefixOfSent ==
    /\ IsPrefix(received, sent)
    /\ ~receiver_dropped => sent = received \o queue
    /\ IsPrefix(sent, SequentialResults(SubsetPermutationGenerator_new(source_numbers),
                                        number_system, operators, target_number))

C12_Witness ==
    /\ Len(received) >= 2
    /\ Len(queue) >= 2
    /\ pc = "send"
    /\ consumer = "receive"

\* C13: the channel has capacity ChannelCapacity = 10: the items sent and
\* not yet received never exceed it, because send does not complete while
\* that many are undelivered.
C13_AtMostCapacityInFlight ==
    /\ Len(queue) <= ChannelCapacity
    /\ Len(sent) - Len(received) <= ChannelCapacity

\* the producer blocked in send on a full buffer
C13_Witness ==
    /\ Len(queue) = ChannelCapacity
    /\ pc = "send"
    /\ pending # <<>>
    /\ ~receiver_dropped
    /\ ~ENABLED ThreadSender_send

\* C14: next returns None only when isdone() holds and nothing is pending;
\* isdone() holds only after the sender was marked done or dropped and the
\* buffer was drained, so when the iteration ends the consumer has obtained
\* every item send accepted; a receive that timed out never ends it.
C14_NoneOnlyWhenDoneAndDrained ==
    /\ receiver_done => ~IsSome(thread_sender) /\ queue = <<>>
    /\ consumer \in {"ended", "joined"} =>
          /\ receiver_done
          /\ queue = <<>>
          /\ received = sent

C14_Witness ==
    /\ consumer = "ended"
    /\ Len(received) > ChannelCapacity

\* C15: find_expressions calls set_done on the shared sender at most once at
\* any time and exactly once by the time it has returned, only after the
\* last sequence went through generate_tree and all its results were sent;
\* while a sequence is unprocessed or a generate_tree call is sending, the
\* shared sender is not marked done.
C15_CompletionOnceAfterLastSequence ==
    /\ set_done_calls <= 1
    /\ done <=> set_done_calls = 1
    /\ pc = "returned" <=> done
    /\ done =>
          /\ pending = <<>>
          /\ remaining = <<>>
          /\ ~IsSome(thread_sender)
    /\ pc \in {"loop", "send"} => IsSome(thread_sender)

C15_Witness ==
    /\ pc = "returned"
    /\ set_done_calls = 1
    /\ Len(sent) > ChannelCapacity

\* C16: when the consumer stops requesting results, by no longer polling or
\* by dropping the receiver, the producer does not panic.
C16_ProducerSurvivesConsumerLeaving ==
    consumer \in {"stopped", "dropped"} => pc # "panicked"

\* C17: with a consumer that keeps pulling, under fair scheduling of both
\* threads, find_expressions returns, the sender is marked done, the
\* iterator ends with None and the join at the end of run returns.
C17_PipelineTerminates ==
    <>(/\ pc = "returned"
       /\ done
       /\ ~IsSome(thread_sender)
       /\ receiver_done
       /\ consumer = "joined")

C17_Witness ==
    /\ consumer = "joined"
    /\ pc = "returned"
    /\ received = sent
    /\ Len(received) > ChannelCapacity

\* C19: NormalNumberSystem mul and div return a result only if the operands
\* are unequal, neither is ZERO and neither is ONE.
C19_MulDivRejectZeroAndOne ==
    (/\ number_system = NormalNumberSystem
     /\ last_op \in {Some("Mul"), Some("Div")}
     /\ IsSome(result))
    => /\ one # other
       /\ one # ZERO /\ other # ZERO
       /\ one # ONE /\ other # ONE

\* the result of an operation in unbounded integer arithmetic
Exact(oper, a, b) ==
    CASE oper = "Add" -> a + b
      [] oper = "Sub" -> a - b
      [] oper = "Mul" -> a * b

InRangeOfT(x) == x \in 0..(TModulus - 1)

\* C20: NormalNumberSystem add, sub and mul never return a wrapped value:
\* a returned value is the exact result, and when the exact result lies
\* outside T's range nothing is returned.
C20_NoWrappedValue ==
    (/\ number_system = NormalNumberSystem
     /\ last_op \in {Some("Add"), Some("Sub"), Some("Mul")})
    => LET exact == Exact(Unwrap(last_op), one, other)
       IN  /\ IsSome(result) => Unwrap(result) = exact /\ InRangeOfT(Unwrap(result))
           /\ ~InRangeOfT(exact) => result = None

C20_Witness ==
    /\ number_system = NormalNumberSystem
    /\ last_op = Some("Mul")
    /\ one = TModulus \div 2
    /\ other = 2
    /\ result = None

\* C21: for every modulus m and all a, b in [0, m), ModularNumberSystem add
\* returns (a + b) mod m and mul returns (a * b) mod m, never no result.
C21_ModularAddMulReduced ==
    (/\ number_system.kind = "Modular"
     /\ last_op \in {Some("Add"), Some("Mul")}
     /\ one < number_system.base
     /\ other < number_system.base)
    => /\ IsSome(result)
       /\ Unwrap(result) = Exact(Unwrap(last_op), one, other) % number_system.base

\* C22: under modulus m, sub(a, a) returns no result for every a in [0, m),
\* and for a # b in [0, m) sub(a, b) returns (a - b) mod m, in [1, m - 1].
C22_ModularSub ==
    (/\ number_system.kind = "Modular"
     /\ last_op = Some("Sub")
     /\ one < number_system.base
     /\ other < number_system.base)
    => IF one = other
       THEN result = None
       ELSE /\ IsSome(result)
            /\ Unwrap(result) = (one - other) % number_system.base
            /\ Unwrap(result) \in 1..(number_system.base - 1)

\* C23: in a search under ModularNumberSystem with modulus m the value of
\* every node of every emitted expression, leaves included, lies in [0, m),
\* whatever the source numbers are.
C23_ModularValuesCanonical ==
    number_system.kind = "Modular" =>
        \A e \in EmittedNodes : get_value(e) \in 0..(number_system.base - 1)

\* the operators of a set in ascending bit order
RECURSIVE InBitOrder(_, _)
InBitOrder(S, order) ==
    IF order = <<>> THEN <<>>
    ELSE (IF Head(order) \in S THEN <<Head(order)>> ELSE <<>>)
            \o InBitOrder(S, Tail(order))

\* C24: for every set S of operators, iterating Operators::from_iter(S)
\* yields the operators of S, each once, in the order Add, Sub, Mul, Div and
\* then None; masking the set with an operator's bit gives back that operator
\* and no operator outside S; the set of all four is Operators::ALL and yields
\* all four.
C24_OperatorsIterateInBitOrder ==
    LET S == Range(input)
        expected == InBitOrder(S, <<"Add", "Sub", "Mul", "Div">>)
        mask == operator_iterator.value
    IN  /\ IsPrefix(yielded, expected)
        /\ exhausted => yielded = expected
        /\ \A op \in Operator :
              IF op \in S
              THEN OperatorOfBit(BitAnd(mask, OperatorBit(op))) = op
              ELSE BitAnd(mask, OperatorBit(op)) = 0
        /\ S = Operator <=> mask = Operators_ALL
        /\ (exhausted /\ mask = Operators_ALL) => yielded = <<"Add", "Sub", "Mul", "Div">>

C24_Witness ==
    /\ exhausted
    /\ input = <<"Div", "Add", "Div", "Sub">>
    /\ yielded = <<"Add", "Sub", "Div">>

\* C25: for source numbers [5,4,3,2,1], the ordinary system, target 10 and
\* all four operators, every delivered expression re-evaluates to 10, and
\* when find_expressions has returned at least one has been delivered.
C25_ScenarioDeliversOnlyTen ==
    /\ \A k \in DOMAIN sent : re_eval(sent[k], number_system) = Some(10)
    /\ pc = "returned" => Len(sent) >= 1

C25_Witness ==
    /\ pc = "returned"
    /\ source_numbers = <<5, 4, 3, 2, 1>>
    /\ target_number = 10
    /\ \E k \in DOMAIN sent :
          /\ sent[k].kind = "Application"
          /\ sent[k].op = "Add"
          /\ sent[k].left.kind = "Application"

\* the leaves of an expression read left to right
RECURSIVE Leaves(_)
Leaves(e) ==
    IF e.kind = "Value" THEN <<e.value>> ELSE Leaves(e.left) \o Leaves(e.right)

\* the recursive reference definition of the trees over a sequence s: a Leaf
\* when |s| = 1, otherwise every (L op R) over every split point, L a tree
\* of the left part, R a tree of the right part, op an allowed operator,
\* with op(value L, value R) defined, not ZERO, and the node valid
RECURSIVE ReferenceTrees(_, _, _)
ReferenceTrees(s, ns, opers) ==
    IF Len(s) = 1 THEN {Value(s[1])}
    ELSE UNION {
            LET lefts == ReferenceTrees(SubSeq(s, 1, mid), ns, opers)
                rights == ReferenceTrees(SubSeq(s, mid + 1, Len(s)), ns, opers)
                defined == {t \in lefts \X rights \X opers :
                               IsSome(apply(t[3], ns, get_value(t[1]), get_value(t[2])))}
                nodes == {Application(t[3], t[1], t[2],
                              Unwrap(apply(t[3], ns, get_value(t[1]), get_value(t[2])))) :
                          t \in defined}
            IN  {n \in nodes : get_value(n) # ZERO /\ is_valid(n)}
            : mid \in 1..(Len(s) - 1)}

\* C26: for the sequence s it is called with, generate_tree emits exactly
\* the trees of the recursive reference definition, each once, and the
\* leaves of every emitted tree read left to right are exactly s.
C26_GenerateTreeMatchesReference ==
    yielded # <<>> =>
        LET s == yielded[Len(yielded)]
        IN  /\ Range(generated) =
                  ReferenceTrees(s, number_system,
                      Range(OperatorIterator_collect(Operators_into_iter(operators))))
            /\ Cardinality(Range(generated)) = Len(generated)
            /\ \A k \in DOMAIN generated : Leaves(generated[k]) = s

C26_Witness ==
    /\ yielded # <<>>
    /\ yielded[Len(yielded)] = <<1, 2, 1>>
    /\ number_system.kind = "Modular"
    /\ Len(generated) > 4
    /\ \E k \in DOMAIN generated : generated[k].left.kind = "Application"
    /\ \E k \in DOMAIN generated : generated[k].right.kind = "Application"

\* C27: SubsetPermutationGenerator emits its sequences ordered by
\* sub-multiset size: the lengths of successive sequences never decrease.
C27_LengthsNonDecreasing ==
    \A i \in DOMAIN yielded : \A j \in DOMAIN yielded :
        i < j => Len(yielded[i]) <= Len(yielded[j])

C27_Witness ==
    /\ exhausted
    /\ Len(input) = MaxListLen
    /\ \E i \in DOMAIN yielded : Len(yielded[i]) = 1
    /\ \E i \in DOMAIN yielded : Len(yielded[i]) = 2
    /\ \E i \in DOMAIN yielded : Len(yielded[i]) = MaxListLen
    /\ \E i \in DOMAIN yielded : i > 1 /\ Len(yielded[i]) = Len(yielded[i - 1])

\* the positions at which two orderings of the same length differ
Differing(x, y) == {p \in DOMAIN x : x[p] # y[p]}

\* C28: the first ordering UniquePermutationGenerator yields is the input
\* unchanged, and every later ordering is the one yielded just before it
\* with exactly two distinct positions exchanged, all others unchanged.
C28_OneSwapPerStep ==
    /\ yielded # <<>> => yielded[1] = input
    /\ \A k \in DOMAIN yielded :
          k > 1 =>
              LET d == Differing(yielded[k - 1], yielded[k])
              IN  /\ Cardinality(d) = 2
                  /\ \A p, q \in d :
                        p # q => yielded[k][p] = yielded[k - 1][q]

C28_Witness ==
    /\ exhausted
    /\ input = <<3, 1, 4, 2>>
    /\ Len(yielded) = Factorial(MaxUniqueLen)
    /\ \E k \in DOMAIN yielded :
          k > 1 /\ Differing(yielded[k - 1], yielded[k]) = {1, 4}

\* ------------------------------------------------------------------------
\* ThreadSender and BlockedSender driven call by call
\* ------------------------------------------------------------------------
\* ThreadSender::send: false without a SyncSender; with one, the item goes
\* into the channel and the result is true, or send panics if the receiver
\* is gone
MySender_send(sender, q, dropped, value) ==
    IF ~IsSome(sender) THEN [outcome |-> "false", queue |-> q]
    ELSE IF dropped THEN [outcome |-> "panic", queue |-> q]
    ELSE [outcome |-> "true", queue |-> Append(q, value)]

BlockedSender_send_SwallowMutant(sender, q, dropped, value) ==
    [outcome |-> "true", queue |-> q]

\* BlockedSender::send: self.0.send(value)
BlockedSender_send(sender, q, dropped, value) == MySender_send(sender, q, dropped, value)

BlockedSender_set_done_ForwardMutant(sender) == ThreadSender_set_done(sender)

\* BlockedSender::set_done: the empty body
BlockedSender_set_done(sender) == sender

\* the items a caller sends
SenderItems == {1, 2}

\* after channel(): a ThreadSender holding the SyncSender, an empty channel,
\* and the items the caller is going to send
InitSender ==
    /\ NumIdle
    /\ UniqueIdle
    /\ OperatorIdle
    /\ CallerIdle
    /\ CachingIdle
    /\ number_system = NormalNumberSystem
    /\ source_numbers = <<>>
    /\ target_number = 0
    /\ operators = 0
    /\ generated = <<>>
    /\ emitted = <<>>
    /\ sent = <<>>
    /\ pc = "owned"
    /\ done = FALSE
    /\ remaining = <<>>
    /\ pending \in SeqsUpTo(SenderItems, MaxSends)
    /\ set_done_calls = 0
    /\ thread_sender = Some("SyncSender")
    /\ queue = <<>>
    /\ last_send = None
    /\ receiver_dropped = FALSE
    /\ receiver_done = FALSE
    /\ received = <<>>
    /\ consumer = "idle"
    /\ input = <<>>
    /\ permutation_generator = <<>>
    /\ kv_iterator = <<>>
    /\ subset_permutations = <<>>
    /\ yielded = <<>>
    /\ exhausted = FALSE

senderFixed == <<source_numbers, target_number, operators, generated, emitted, done,
                 remaining,
                 last_send, receiver_dropped, consumer, number_system, numVars,
                 genVars, uniqueVars, operatorVars, cachingVars>>

\* what a call leaves behind for inspection
Call(op, via, value, outcome, sender_after, queue_after) ==
    Some([op |-> op, via |-> via, value |-> value, outcome |-> outcome,
          set_done_before |-> set_done_calls,
          sender_before |-> thread_sender, queue_before |-> queue,
          sender_after |-> sender_after, queue_after |-> queue_after])

\* sender.send(value) on the ThreadSender itself
Sender_send ==
    /\ pc = "owned"
    /\ pending # <<>>
    /\ LET r == MySender_send(thread_sender, queue, receiver_dropped, Head(pending))
       IN  /\ r.outcome = "true" => SyncSender_has_room(queue)
           /\ queue' = r.queue
           /\ sent' = IF r.outcome = "true" THEN Append(sent, Head(pending)) ELSE sent
           /\ last_call' = Call("send", "direct", Head(pending), r.outcome,
                                thread_sender, r.queue)
    /\ pending' = Tail(pending)
    /\ UNCHANGED <<thread_sender, set_done_calls, blocked_set_done_calls, pc,
                   received, receiver_done>>
    /\ UNCHANGED senderFixed

\* sender.blocked().send(value)
Blocked_send ==
    /\ pc = "owned"
    /\ pending # <<>>
    /\ LET r == BlockedSender_send(thread_sender, queue, receiver_dropped, Head(pending))
       IN  /\ r.outcome = "true" => SyncSender_has_room(queue)
           /\ queue' = r.queue
           /\ sent' = IF r.queue # queue THEN Append(sent, Head(pending)) ELSE sent
           /\ last_call' = Call("send", "blocked", Head(pending), r.outcome,
                                thread_sender, r.queue)
    /\ pending' = Tail(pending)
    /\ UNCHANGED <<thread_sender, set_done_calls, blocked_set_done_calls, pc,
                   received, receiver_done>>
    /\ UNCHANGED senderFixed

\* sender.blocked().set_done()
Blocked_set_done ==
    /\ pc = "owned"
    /\ blocked_set_done_calls < MaxSetDoneCalls
    /\ thread_sender' = BlockedSender_set_done(thread_sender)
    /\ blocked_set_done_calls' = blocked_set_done_calls + 1
    /\ last_call' = Call("set_done", "blocked", None, "unit", thread_sender', queue)
    /\ UNCHANGED <<pending, sent, queue, set_done_calls, pc, received, receiver_done>>
    /\ UNCHANGED senderFixed

\* sender.set_done() on the ThreadSender itself
Sender_set_done ==
    /\ pc = "owned"
    /\ set_done_calls < MaxSetDoneCalls
    /\ thread_sender' = ThreadSender_set_done(thread_sender)
    /\ set_done_calls' = set_done_calls + 1
    /\ last_call' = Call("set_done", "direct", None, "unit", thread_sender', queue)
    /\ UNCHANGED <<pending, sent, queue, blocked_set_done_calls, pc, received,
                   receiver_done>>
    /\ UNCHANGED senderFixed

\* the ThreadSender goes out of scope: Drop calls set_done
Sender_drop ==
    /\ pc = "owned"
    /\ thread_sender' = ThreadSender_set_done(thread_sender)
    /\ set_done_calls' = set_done_calls + 1
    /\ last_call' = Call("drop", "direct", None, "unit", thread_sender', queue)
    /\ pc' = "dropped"
    /\ UNCHANGED <<pending, sent, queue, blocked_set_done_calls, received, receiver_done>>
    /\ UNCHANGED senderFixed

\* receiver.receive() on the other end of the channel
Receiver_receive ==
    /\ LET r == recv_timeout(queue, thread_sender)
       IN  /\ queue' = r.rest
           /\ received' = IF r.kind = "Ok" THEN Append(received, Unwrap(r.value))
                          ELSE received
           /\ receiver_done' = IF r.kind = "Disconnected" THEN TRUE ELSE receiver_done
    /\ UNCHANGED <<pending, sent, thread_sender, set_done_calls, pc, callerVars>>
    /\ UNCHANGED senderFixed

NextSender ==
    \/ Sender_send
    \/ Blocked_send
    \/ Blocked_set_done
    \/ Sender_set_done
    \/ Sender_drop
    \/ Receiver_receive

SpecSender == InitSender /\ [][NextSender]_vars

\* C29: a send through BlockedSender has the result and the effect of the
\* same send on the underlying sender, and set_done on a BlockedSender leaves
\* the underlying sender as it was: as long as only BlockedSender's set_done
\* has been called the underlying sender is not done and accepts items.
C29_BlockedSenderForwardsSendOnly ==
    /\ IsSome(last_call) /\ Unwrap(last_call).via = "blocked" =>
          LET c == Unwrap(last_call)
          IN  /\ c.sender_after = c.sender_before
              /\ c.op = "send" =>
                    LET d == MySender_send(c.sender_before, c.queue_before,
                                           receiver_dropped, c.value)
                    IN  /\ c.outcome = d.outcome
                        /\ c.queue_after = d.queue
              /\ c.op = "set_done" => c.queue_after = c.queue_before
    /\ set_done_calls = 0 =>
          /\ IsSome(thread_sender)
          /\ ~receiver_done
          /\ IsSome(last_call) /\ Unwrap(last_call).op = "send" =>
                /\ Unwrap(last_call).outcome = "true"
                /\ Unwrap(last_call).queue_after =
                      Append(Unwrap(last_call).queue_before, Unwrap(last_call).value)
    /\ sent = received \o queue

C29_Witness ==
    /\ blocked_set_done_calls = MaxSetDoneCalls
    /\ set_done_calls = 0
    /\ IsSome(last_call)
    /\ Unwrap(last_call).op = "send"
    /\ Unwrap(last_call).via = "blocked"
    /\ Unwrap(last_call).outcome = "true"
    /\ Len(sent) = MaxSends
    /\ received # <<>>

\* C30: ThreadSender::set_done is idempotent (a second call, explicit or
\* from Drop, changes nothing); after set_done every send returns false and
\* puts nothing into the channel; the items sent before set_done stay in the
\* channel and the receiver still gets them, in order.
C30_SetDoneIdempotentAndFinal ==
    /\ set_done_calls > 0 => ~IsSome(thread_sender)
    /\ IsSome(last_call) /\ Unwrap(last_call).via = "direct"
         /\ Unwrap(last_call).op \in {"set_done", "drop"} =>
          LET c == Unwrap(last_call)
          IN  /\ ~IsSome(c.sender_after)
              /\ c.queue_after = c.queue_before
              /\ c.set_done_before > 0 => c.sender_after = c.sender_before
    /\ IsSome(last_call) /\ Unwrap(last_call).op = "send"
         /\ Unwrap(last_call).set_done_before > 0 =>
          /\ Unwrap(last_call).outcome = "false"
          /\ Unwrap(last_call).queue_after = Unwrap(last_call).queue_before
    /\ sent = received \o queue
    /\ queue # <<>> =>
          LET r == recv_timeout(queue, thread_sender)
          IN  r.kind = "Ok" /\ r.value = Some(Head(queue)) /\ r.rest = Tail(queue)
    /\ receiver_done => queue = <<>> /\ received = sent

C30_Witness ==
    /\ pc = "dropped"
    /\ set_done_calls = MaxSetDoneCalls
    /\ IsSome(last_call)
    /\ Unwrap(last_call).op = "drop"
    /\ Unwrap(last_call).set_done_before > 0
    /\ pending = <<>>
    /\ Len(sent) = 2
    /\ received = sent
    /\ receiver_done

\* a send that came back false after set_done, with earlier items received
C30_WitnessSendAfterDone ==
    /\ IsSome(last_call)
    /\ Unwrap(last_call).op = "send"
    /\ Unwrap(last_call).outcome = "false"
    /\ Unwrap(last_call).queue_before # <<>>
    /\ received = sent
    /\ sent # <<>>

\* n is a prime number: greater than one and divisible by no d with 1 < d < n
IsPrimeNumber(n) == n > 1 /\ \A d \in 2..(n - 1) : n % d # 0

\* C31: is_prime(n) is true exactly when n is prime, so the flag that
\* ModularNumberSystem::new(m) caches is true iff m is prime.
C31_PrimeFlagIffPrime ==
    number_system.kind = "Modular" =>
        /\ is_prime(number_system.base) = IsPrimeNumber(number_system.base)
        /\ number_system.prime = IsPrimeNumber(number_system.base)

\* debug_assert!(t < self.0 && t >= T::ZERO) on an operand
operand_assert(ns, t) == t < ns.base /\ t >= ZERO

\* the debug_assert! at the end of in_range, on the reduced value
in_range_assert(ns, t) ==
    t_into_range(ns, t) >= ZERO /\ t_into_range(ns, t) < ns.base

\* the assertions a call of add passes through all hold
Modular_add_asserts(ns, a, b) ==
    /\ operand_assert(ns, a)
    /\ operand_assert(ns, b)
    /\ IsSome(checked_add(a, b)) => in_range_assert(ns, a + b)

\* sub: its own two, then those of the add it calls with base - other
Modular_sub_asserts(ns, a, b) ==
    /\ operand_assert(ns, a)
    /\ operand_assert(ns, b)
    /\ a # b /\ IsSome(checked_sub(ns.base, b)) =>
          Modular_add_asserts(ns, a, ns.base - b)

Modular_mul_asserts(ns, a, b) ==
    /\ operand_assert(ns, a)
    /\ operand_assert(ns, b)
    /\ IsSome(checked_mul(a, b)) => in_range_assert(ns, a * b)

\* div: its own two, then those of the mul it calls with the inverse
Modular_div_asserts(ns, a, b) ==
    /\ operand_assert(ns, a)
    /\ operand_assert(ns, b)
    /\ ns.prime => Modular_mul_asserts(ns, a, multiplicative_inverse(ns, b))

asserts_hold(oper, ns, a, b) ==
    IF oper = "Add" THEN Modular_add_asserts(ns, a, b)
    ELSE IF oper = "Sub" THEN Modular_sub_asserts(ns, a, b)
    ELSE IF oper = "Mul" THEN Modular_mul_asserts(ns, a, b)
    ELSE Modular_div_asserts(ns, a, b)

\* C32: with both operands in [0, m), a call of the modular add, sub, mul
\* or div violates no range assertion, those of the operations it calls
\* included.
C32_NoRangeAssertionViolated ==
    /\ IsSome(last_op)
    /\ number_system.kind = "Modular"
    /\ one < number_system.base
    /\ other < number_system.base
    => asserts_hold(Unwrap(last_op), number_system, one, other)

\* the same with sub(a, 0) and the modulus 1 left out
C32_AssertionsHoldElsewhere ==
    /\ IsSome(last_op)
    /\ number_system.kind = "Modular"
    /\ number_system.base > 1
    /\ one < number_system.base
    /\ other < number_system.base
    /\ ~(Unwrap(last_op) = "Sub" /\ other = ZERO /\ one # ZERO)
    => asserts_hold(Unwrap(last_op), number_system, one, other)

\* ------------------------------------------------------------------------
\* find_expressions with the stream of generate_tree recorded
\* ------------------------------------------------------------------------
\* one turn of the for loop, as Find_permutation, with what generate_tree
\* sent appended to the history
Stream_permutation ==
    /\ pc = "loop"
    /\ LET r == SubsetPermutationGenerator_next(subset_permutations)
       IN  /\ IsSome(r.out)
           /\ subset_permutations' = r.gen
           /\ yielded' = Append(yielded, Unwrap(r.out))
           /\ generated' = generate_tree(Unwrap(r.out), number_system, operators)
           /\ emitted' = emitted \o generated'
           /\ sent' = sent \o SenderFilter_send(generated', target_number)
    /\ UNCHANGED <<source_numbers, target_number, operators, pc, done>>
    /\ UNCHANGED <<number_system, numVars>>
    /\ UNCHANGED <<input, permutation_generator, kv_iterator, exhausted>>
    /\ UNCHANGED <<uniqueVars, pipeVars, operatorVars, callerVars, cachingVars>>

NextStream == Stream_permutation \/ Find_done

SpecStream == Init /\ [][NextStream]_vars

\* C33: the stream of expressions generate_tree emits during one
\* find_expressions run holds no tree twice, within the sequence of one
\* permutation and across the sequences of all permutations; so neither
\* does the stream that is delivered.
C33_NoTreeEmittedTwice ==
    /\ Cardinality(Range(emitted)) = Len(emitted)
    /\ Cardinality(Range(sent)) = Len(sent)

C33_Witness ==
    /\ done
    /\ source_numbers = <<1, 1, 2>>
    /\ Len(yielded) > 4
    /\ Len(emitted) > Len(generated)
    /\ Len(generated) > 1
    /\ Len(sent) > 1

\* every node of every expression generate_tree has sent during the run
AllEmittedNodes == UNION {Nodes(e) : e \in Range(emitted)}

\* C34: under NormalNumberSystem every Application node of every emitted
\* expression has a left child whose value is strictly greater than its
\* right child's, whatever the operator; so no node combines two equal
\* values, and of (L op R) and (R op L) at most one is ever emitted.
C34_LeftValueGreaterThanRight ==
    number_system.kind = "Normal" =>
        /\ \A n \in AllEmittedNodes :
              n.kind = "Application" =>
                  /\ get_value(n.left) > get_value(n.right)
                  /\ get_value(n.left) # get_value(n.right)
        /\ LET apps == {n \in AllEmittedNodes : n.kind = "Application"}
           IN  {<<n.op, n.left, n.right>> : n \in apps}
                   \cap {<<n.op, n.right, n.left>> : n \in apps} = {}

C34_Witness ==
    /\ number_system.kind = "Normal"
    /\ done
    /\ \A o \in {"Add", "Sub", "Mul", "Div"} :
          \E n \in AllEmittedNodes : n.kind = "Application" /\ n.op = o
    /\ \E n \in AllEmittedNodes :
          n.kind = "Application" /\ n.left.kind = "Application"

\* C35: no Application node with operator Div whose right child has value
\* ZERO is ever emitted, in either number system.
C35_NoDivisionByZeroNode ==
    /\ \A n \in AllEmittedNodes :
          n.kind = "Application" /\ n.op = "Div" => get_value(n.right) # ZERO
    /\ \A a \in SourceValues : Normal_div(a, ZERO) = None

\* a run that allowed Div, was given the sequence <<2, 0>> to divide in, and
\* emitted Div nodes from other operands
DivByZeroTried ==
    /\ "Div" \in Range(OperatorIterator_collect(Operators_into_iter(operators)))
    /\ \E k \in DOMAIN yielded : yielded[k] = <<2, 0>>
    /\ \E n \in AllEmittedNodes : n.kind = "Application" /\ n.op = "Div"

C35_Witness == DivByZeroTried /\ number_system.kind = "Modular"

C35_WitnessNormal == DivByZeroTried /\ number_system.kind = "Normal"

\* C36: in NormalNumberSystem div(a, b) with a > b > 1 returns the truncated
\* quotient floor(a / b), which is at least 1, whether or not b divides a.
C36_NormalDivTruncates ==
    /\ last_op = Some("Div")
    /\ number_system.kind = "Normal"
    /\ one > other
    /\ other > ONE
    => /\ IsSome(result)
       /\ Unwrap(result) * other <= one
       /\ one < (Unwrap(result) + 1) * other
       /\ Unwrap(result) >= ONE

C36_Witness ==
    /\ last_op = Some("Div")
    /\ number_system.kind = "Normal"
    /\ one = 5
    /\ other = 2
    /\ result = Some(2)

\* ------------------------------------------------------------------------
\* ConcurrentCachingTransiever: one handle sends, its clone receives
\* ------------------------------------------------------------------------
\* #[derive(Clone)] on (Arc<Mutex<VecDeque<T>>>, bool): the Arc is shared,
\* the bool is copied with the value it has at the time of the clone
ConcurrentCachingTransiever_clone(handle) == [done |-> handle.done]

\* set_done: self.1 = true
ConcurrentCachingTransiever_set_done(handle) == [handle EXCEPT !.done = TRUE]

\* isdone: the queue is empty && self.1
ConcurrentCachingTransiever_isdone(q, handle) == q = <<>> /\ handle.done

\* after default(): an empty queue, the flag false, no clone yet
InitCaching ==
    /\ NumIdle
    /\ SearchIdle
    /\ UniqueIdle
    /\ PipeIdle
    /\ OperatorIdle
    /\ last_call = None
    /\ blocked_set_done_calls = 0
    /\ number_system = NormalNumberSystem
    /\ input = <<>>
    /\ permutation_generator = <<>>
    /\ kv_iterator = <<>>
    /\ subset_permutations = <<>>
    /\ yielded = <<>>
    /\ exhausted = FALSE
    /\ shared_queue = <<>>
    /\ sender_handle = Some([done |-> FALSE])
    /\ receiver_handle = None
    /\ handle_pending \in SeqsUpTo(SenderItems, MaxSends)
    /\ handle_received = <<>>
    /\ last_isdone = None

cachingFixed == <<genVars, number_system, numVars, searchVars, uniqueVars, pipeVars,
                  operatorVars, callerVars>>

\* let receiver = sender.clone()
Transiever_clone ==
    /\ receiver_handle = None
    /\ receiver_handle' = Some(ConcurrentCachingTransiever_clone(Unwrap(sender_handle)))
    /\ UNCHANGED <<shared_queue, sender_handle, handle_pending, handle_received,
                   last_isdone>>
    /\ UNCHANGED cachingFixed

\* sender.send(value): push_back under the lock
Transiever_send ==
    /\ handle_pending # <<>>
    /\ shared_queue' = Append(shared_queue, Head(handle_pending))
    /\ handle_pending' = Tail(handle_pending)
    /\ UNCHANGED <<sender_handle, receiver_handle, handle_received, last_isdone>>
    /\ UNCHANGED cachingFixed

\* sender.set_done()
Transiever_set_done ==
    /\ sender_handle' = Some(ConcurrentCachingTransiever_set_done(Unwrap(sender_handle)))
    /\ UNCHANGED <<shared_queue, receiver_handle, handle_pending, handle_received,
                   last_isdone>>
    /\ UNCHANGED cachingFixed

\* receiver.receive(): pop_front under the lock
Transiever_receive ==
    /\ IsSome(receiver_handle)
    /\ IF shared_queue = <<>>
       THEN UNCHANGED <<shared_queue, handle_received>>
       ELSE /\ shared_queue' = Tail(shared_queue)
            /\ handle_received' = Append(handle_received, Head(shared_queue))
    /\ UNCHANGED <<sender_handle, receiver_handle, handle_pending, last_isdone>>
    /\ UNCHANGED cachingFixed

\* receiver.isdone()
Transiever_isdone ==
    /\ IsSome(receiver_handle)
    /\ last_isdone' =
          Some([result |-> ConcurrentCachingTransiever_isdone(shared_queue,
                                                              Unwrap(receiver_handle)),
                sender_done |-> Unwrap(sender_handle).done,
                cloned_done |-> Unwrap(receiver_handle).done,
                drained |-> shared_queue = <<>>])
    /\ UNCHANGED <<shared_queue, sender_handle, receiver_handle, handle_pending,
                   handle_received>>
    /\ UNCHANGED cachingFixed

NextCaching ==
    \/ Transiever_clone
    \/ Transiever_send
    \/ Transiever_set_done
    \/ Transiever_receive
    \/ Transiever_isdone

SpecCaching == InitCaching /\ [][NextCaching]_vars

\* C37: a ConcurrentCachingTransiever cloned into a sending and a receiving
\* handle over one queue: once the sending handle has called set_done and
\* the receiving handle has drained the queue, isdone() on the receiving
\* handle returns true.
C37_CloneSeesSetDone ==
    /\ IsSome(last_isdone)
    /\ Unwrap(last_isdone).sender_done
    /\ Unwrap(last_isdone).drained
    => Unwrap(last_isdone).result

\* what the code does: isdone() on the clone is the clone's own copy of the
\* flag, taken at clone(), and the queue being empty
C37_CloneUsesItsOwnFlag ==
    IsSome(last_isdone) =>
        Unwrap(last_isdone).result =
            (Unwrap(last_isdone).cloned_done /\ Unwrap(last_isdone).drained)

====
